---- MODULE Spec2Model ----
(***************************************************************************)
(* Model of the two pipelines of Task_05_Descriptive_Stats:                *)
(*   clean_and_sensitivity.py  (clean_filter, flipped, best_split, main)   *)
(*   ocr_and_parse.py          (parse_schedule_from_text, main)            *)
(*                                                                         *)
(* A DataFrame is [columns |-> set of column names, rows |-> sequence of   *)
(* rows]; a row is a function from column names to cells, plus the field   *)
(* "idx" that stands for the DataFrame index label of the row.  A cell is  *)
(* one of Str(<<chars>>), Raw("text"), Num(n), Ts(day), NaN.               *)
(* Strings whose characters the code inspects are sequences of one-        *)
(* character strings.                                                      *)
(***************************************************************************)
EXTENDS Integers, Sequences, FiniteSets, TLC

\* ------------------------------------------------------------------ bounds
MaxRows == 2
MaxGoal == 3
MaxSwing == 3
MaxLines == 2
MaxPages == 2

\* ------------------------------------------------------- program constants
GoalLo == 1
GoalHi == 35
DmaxDefault == 4

\* ------------------------------------------------------------------- cells
Str(s) == [str |-> s]
Raw(s) == [raw |-> s]
Num(n) == [num |-> n]
Flt(d) == [flt |-> d]
Bool(b) == [bool |-> b]
Ts(n) == [ts |-> n]
NaN == [nan |-> TRUE]

IsStr(c) == "str" \in DOMAIN c
IsRaw(c) == "raw" \in DOMAIN c
IsNum(c) == "num" \in DOMAIN c
IsFlt(c) == "flt" \in DOMAIN c
IsBool(c) == "bool" \in DOMAIN c
IsTs(c) == "ts" \in DOMAIN c
IsNaN(c) == "nan" \in DOMAIN c

\* ------------------------------------------------------------- characters
\* The alphabet is U+0000 to U+00FF with the Greek letters U+039C and U+03BC
\* (the capital of U+00B5 and its small letter) and U+0178 (the capital of
\* U+00FF), which is written "{U+0178}".
\* the small letters that have a capital, and their capitals in the same order:
\* the first 26 are a-z and A-Z
LowerChars == <<"a","b","c","d","e","f","g","h","i","j","k","l","m",
                "n","o","p","q","r","s","t","u","v","w","x","y","z",
                "à","á","â","ã","ä","å","æ","ç","è","é","ê","ë","ì",
                "í","î","ï","ð","ñ","ò","ó","ô","õ","ö","ø","ù","ú",
                "û","ü","ý","þ","ÿ","μ">>
UpperChars == <<"A","B","C","D","E","F","G","H","I","J","K","L","M",
                "N","O","P","Q","R","S","T","U","V","W","X","Y","Z",
                "À","Á","Â","Ã","Ä","Å","Æ","Ç","È","É","Ê","Ë","Ì",
                "Í","Î","Ï","Ð","Ñ","Ò","Ó","Ô","Õ","Ö","Ø","Ù","Ú",
                "Û","Ü","Ý","Þ","{U+0178}","Μ">>

\* the small letters without a one-letter capital of their own in the tables
SharpS == "ß"
MicroSign == "µ"
OrdinalChars == {"ª", "º"}

\* str.islower(), str.isupper() of one character
IsLower(c) == \/ \E i \in DOMAIN LowerChars : LowerChars[i] = c
              \/ c \in {SharpS, MicroSign} \cup OrdinalChars
IsUpper(c) == \E i \in DOMAIN UpperChars : UpperChars[i] = c
\* the cased characters, which str.title() takes as the inside of a word
IsCased(c) == IsLower(c) \/ IsUpper(c)
\* the regular expression class [A-Za-z]
IsLetter(c) == \E i \in 1..26 : c \in {LowerChars[i], UpperChars[i]}
\* the characters of the regular expression class \s, which are the ones
\* str.strip() removes, up to U+00FF: space, tab, line feed, carriage return,
\* form feed, then U+000B, U+001C to U+001F, U+0085 and U+00A0 written as
\* themselves.  The Unicode spaces from U+1680 on are outside the alphabet.
WhiteSpace == {" ", "\t", "\n", "\r", "\f", "", "", "", "", "", "", " "}
IsSpace(c) == c \in WhiteSpace

\* str.upper() of one character: sharp s becomes two letters
ToUpper(c) ==
  CASE c = SharpS -> <<"S", "S">>
    [] c = MicroSign -> <<"Μ">>
    [] \E i \in DOMAIN LowerChars : LowerChars[i] = c ->
         <<UpperChars[CHOOSE i \in DOMAIN LowerChars : LowerChars[i] = c]>>
    [] OTHER -> <<c>>
\* str.lower() of one character
ToLower(c) ==
  IF IsUpper(c) THEN LowerChars[CHOOSE i \in DOMAIN UpperChars : UpperChars[i] = c] ELSE c
\* the title case of one character
ToTitle(c) == IF c = SharpS THEN <<"S", "s">> ELSE ToUpper(c)

\* the texts of a sequence joined
RECURSIVE Concat(_)
Concat(parts) == IF parts = <<>> THEN <<>> ELSE Head(parts) \o Concat(Tail(parts))

\* str.upper(), str.lower()
Upper(s) == Concat([i \in 1..Len(s) |-> ToUpper(s[i])])
Lower(s) == [i \in 1..Len(s) |-> ToLower(s[i])]

\* str.title(): a character that follows a cased character is lowered, any
\* other is put in title case
Title(s) ==
  Concat([i \in 1..Len(s) |->
            IF i > 1 /\ IsCased(s[i-1]) THEN <<ToLower(s[i])>> ELSE ToTitle(s[i])])

\* str.lstrip(chars): drop the leading characters that are in the set
RECURSIVE LStripSet(_, _)
LStripSet(s, set) ==
  IF s # <<>> /\ Head(s) \in set THEN LStripSet(Tail(s), set) ELSE s

RECURSIVE RStripSet(_, _)
RStripSet(s, set) ==
  IF s # <<>> /\ s[Len(s)] \in set THEN RStripSet(SubSeq(s, 1, Len(s) - 1), set) ELSE s

\* str.strip()
Strip(s) == RStripSet(LStripSet(s, WhiteSpace), WhiteSpace)

\* str.replace(r'\s+', ' ', regex=True): every run of whitespace becomes one space
RECURSIVE CollapseWs(_)
CollapseWs(s) ==
  IF s = <<>> THEN <<>>
  ELSE IF IsSpace(Head(s))
       THEN <<" ">> \o CollapseWs(LStripSet(Tail(s), WhiteSpace))
       ELSE <<Head(s)>> \o CollapseWs(Tail(s))

\* str.contains(r'[A-Za-z]')
ContainsLetter(s) == \E i \in 1..Len(s) : IsLetter(s[i])

\* ------------------------------------------------------------------ numbers
\* the decimal digits
DigitChars == <<"0","1","2","3","4","5","6","7","8","9">>
IsDigit(c) == \E i \in 1..10 : DigitChars[i] = c
IsDigits(s) == \A i \in 1..Len(s) : IsDigit(s[i])

\* the value of a text of digits
RECURSIVE ParseInt(_)
ParseInt(s) ==
  IF s = <<>> THEN 0
  ELSE ParseInt(SubSeq(s, 1, Len(s) - 1)) * 10
       + (CHOOSE d \in 0..9 : DigitChars[d + 1] = s[Len(s)])

\* str(n) of a natural number
RECURSIVE FormatNat(_)
FormatNat(n) ==
  IF n < 10 THEN <<DigitChars[n + 1]>>
  ELSE FormatNat(n \div 10) \o <<DigitChars[(n % 10) + 1]>>

\* str(n) of an integer
FormatInt(n) == IF n < 0 THEN <<"-">> \o FormatNat(0 - n) ELSE FormatNat(n)

RECURSIVE Pow10(_)
Pow10(k) == IF k = 0 THEN 1 ELSE 10 * Pow10(k - 1)

RECURSIVE Zeros(_)
Zeros(k) == IF k <= 0 THEN <<>> ELSE <<"0">> \o Zeros(k - 1)

\* A float64 is kept as the decimal it was read from, (-1)^neg * m * 10^e
\* with m free of a last zero, or as an infinity; the decimals of the model
\* have at most nine digits, which a float64 holds and prints back.
RECURSIVE Dec(_, _, _)
Dec(neg, m, e) ==
  IF m = 0 THEN [neg |-> neg, m |-> 0, e |-> 0]
  ELSE IF m % 10 = 0 THEN Dec(neg, m \div 10, e + 1)
  ELSE [neg |-> neg, m |-> m, e |-> e]
Inf(neg) == [neg |-> neg, inf |-> TRUE]
IsInf(d) == "inf" \in DOMAIN d
\* float(n)
DecOfInt(n) == IF n < 0 THEN Dec(TRUE, 0 - n, 0) ELSE Dec(FALSE, n, 0)
IsWhole(d) == ~IsInf(d) /\ d.e >= 0
WholeValue(d) == (IF d.neg THEN 0 - d.m ELSE d.m) * Pow10(d.e)

\* repr(x) of a float: fixed notation when the decimal point falls within
\* (-4, 16], the exponent form otherwise
FormatFloat(d) ==
  IF IsInf(d) THEN (IF d.neg THEN <<"-">> ELSE <<>>) \o <<"i","n","f">>
  ELSE
    LET sign == IF d.neg THEN <<"-">> ELSE <<>>
        ds == FormatNat(d.m)
        n == Len(ds)
        decpt == n + d.e
        x == decpt - 1
        xs == FormatNat(IF x < 0 THEN 0 - x ELSE x)
    IN  IF d.m = 0 THEN sign \o <<"0",".","0">>
        ELSE IF decpt > 16 \/ decpt <= -4
        THEN sign \o <<ds[1]>> \o (IF n > 1 THEN <<".">> \o SubSeq(ds, 2, n) ELSE <<>>)
             \o <<"e", (IF x < 0 THEN "-" ELSE "+")>> \o Zeros(2 - Len(xs)) \o xs
        ELSE IF decpt <= 0 THEN sign \o <<"0",".">> \o Zeros(0 - decpt) \o ds
        ELSE IF decpt >= n THEN sign \o ds \o Zeros(decpt - n) \o <<".","0">>
        ELSE sign \o SubSeq(ds, 1, decpt) \o <<".">> \o SubSeq(ds, decpt + 1, n)

\* the whitespace the number converters of the CSV parser skip at both ends
CSpace == {" ", "\t", "\n", "\r", "\f", ""}

\* 0, or the first position of the text that holds a character of the set
FirstChar(s, set) ==
  IF \E i \in 1..Len(s) : s[i] \in set
  THEN CHOOSE i \in 1..Len(s) : s[i] \in set /\ \A j \in 1..(i-1) : s[j] \notin set
  ELSE 0

\* the names the float converter takes for the infinities, in any case
InfNames == {<<"i","n","f">>, <<"i","n","f","i","n","i","t","y">>}

NoNumber == [kind |-> "none"]

\* the exponent of a float text, the text after its e: <<the value>>, or <<>>
\* when no digits follow
ExpValue(expo) ==
  LET digits == IF expo # <<>> /\ expo[1] \in {"+", "-"} THEN Tail(expo) ELSE expo
  IN  IF digits = <<>> \/ ~IsDigits(digits) THEN <<>>
      ELSE <<IF expo[1] = "-" THEN 0 - ParseInt(digits) ELSE ParseInt(digits)>>

\* the float of the digits before and after the point and the exponent ex
DecimalOf(neg, ip, fp, ex) ==
  IF IsDigits(ip) /\ IsDigits(fp) /\ Len(ip) + Len(fp) > 0
  THEN [kind |-> "float", d |-> Dec(neg, ParseInt(ip \o fp), ex - Len(fp))]
  ELSE NoNumber

MantissaOf(neg, mant, ex) ==
  LET dot == FirstChar(mant, {"."})
  IN  IF dot = 0 THEN DecimalOf(neg, mant, <<>>, ex)
      ELSE DecimalOf(neg, SubSeq(mant, 1, dot - 1), SubSeq(mant, dot + 1, Len(mant)), ex)

\* a float: a mantissa with a point and an exponent, both optional
FloatOf(neg, rest) ==
  LET ePos == FirstChar(rest, {"e", "E"})
      ex == ExpValue(SubSeq(rest, ePos + 1, Len(rest)))
  IN  IF ePos = 0 THEN MantissaOf(neg, rest, 0)
      ELSE IF ex = <<>> THEN NoNumber
      ELSE MantissaOf(neg, SubSeq(rest, 1, ePos - 1), ex[1])

\* the name of an infinity, the whole field in any case
InfOf(s) ==
  LET low == Lower(s)
  IN  IF (IF low # <<>> /\ low[1] \in {"+", "-"} THEN Tail(low) ELSE low) \in InfNames
      THEN [kind |-> "float", d |-> Inf(low[1] = "-")]
      ELSE NoNumber

\* an integer is digits only; what is no integer is tried as a float, then as
\* the name of an infinity
UnsignedOf(neg, rest, s) ==
  IF rest # <<>> /\ IsDigits(rest)
  THEN [kind |-> "int", n |-> IF neg THEN 0 - ParseInt(rest) ELSE ParseInt(rest)]
  ELSE IF FloatOf(neg, rest) # NoNumber THEN FloatOf(neg, rest)
  ELSE InfOf(s)

\* The number a field is read as: [kind |-> "int", n |-> ...], [kind |->
\* "float", d |-> ...] or NoNumber.  The converters skip the spaces at both
\* ends and take one sign.
ParseNumber(s) ==
  LET body == RStripSet(LStripSet(s, CSpace), CSpace)
  IN  IF body # <<>> /\ body[1] \in {"+", "-"}
      THEN UnsignedOf(body[1] = "-", Tail(body), s)
      ELSE UnsignedOf(FALSE, body, s)

\* astype(str) of a cell: str(x) of a number or a truth value, "nan" for a
\* missing value
AsStr(c) ==
  CASE IsNaN(c) -> <<"n","a","n">>
    [] IsNum(c) -> FormatInt(c.num)
    [] IsFlt(c) -> FormatFloat(c.flt)
    [] IsBool(c) -> IF c.bool THEN <<"T","r","u","e">> ELSE <<"F","a","l","s","e">>
    [] OTHER -> c.str

\* --------------------------------------------------------------- sequences
\* the rows at the positions in Ix, in their order
RECURSIVE RowsAt(_, _, _)
RowsAt(rows, Ix, i) ==
  IF i > Len(rows) THEN <<>>
  ELSE (IF i \in Ix THEN <<rows[i]>> ELSE <<>>) \o RowsAt(rows, Ix, i + 1)

\* the row r put into the date-sorted sequence after the rows that are not later
RECURSIVE InsertByDate(_, _)
InsertByDate(sorted, r) ==
  IF sorted = <<>> THEN <<r>>
  ELSE IF Head(sorted).date.ts <= r.date.ts
       THEN <<Head(sorted)>> \o InsertByDate(Tail(sorted), r)
       ELSE <<r>> \o sorted

\* DataFrame.sort_values('date'): ascending, rows of one date keep their order
RECURSIVE SortByDate(_)
SortByDate(rows) ==
  IF rows = <<>> THEN <<>>
  ELSE InsertByDate(SortByDate(SubSeq(rows, 1, Len(rows) - 1)), rows[Len(rows)])

\* ------------------------------------------------------------ clean_filter
\* the rename table of normalize_columns
RenameCol(c) ==
  CASE c = "gf" -> "goals_for"
    [] c = "ga" -> "goals_against"
    [] c = "wl" -> "result"
    [] c = "team" -> "opponent"
    [] OTHER -> c

RenameRow(r) ==
  [c \in {RenameCol(k) : k \in DOMAIN r} |-> r[CHOOSE k \in DOMAIN r : RenameCol(k) = c]]

normalize_columns(df) ==
  [columns |-> {RenameCol(c) : c \in df.columns},
   rows |-> [i \in 1..Len(df.rows) |-> RenameRow(df.rows[i])]]

\* the dates pandas can parse in this model, in calendar order; a Timestamp
\* is the position of its date in this list
DateText == <<"2024-10-01", "2024-10-02", "2024-10-03">>
\* the same dates as a schedule sheet prints them (month/day/year)
SlashText == <<"10/01/2024", "10/02/2024", "10/03/2024">>

\* pd.to_datetime(errors='coerce') of one cell, and pd.Timestamp(text)
to_datetime(c) ==
  IF IsTs(c) THEN c
  ELSE IF IsRaw(c) /\ \E i \in 1..Len(DateText) : c.raw \in {DateText[i], SlashText[i]}
       THEN Ts(CHOOSE i \in 1..Len(DateText) : c.raw \in {DateText[i], SlashText[i]})
       ELSE NaN

\* a number by its value, 2 and 2.0 being the same number
NumberCell(d) == IF IsWhole(d) THEN Num(WholeValue(d)) ELSE Flt(d)

\* pd.to_numeric(errors='coerce') of one cell: a number stays, a text is
\* parsed, what is no number becomes NaN
to_numeric(c) ==
  CASE IsNum(c) -> c
    [] IsFlt(c) -> NumberCell(c.flt)
    [] IsBool(c) -> Num(IF c.bool THEN 1 ELSE 0)
    [] IsStr(c) -> (LET p == ParseNumber(c.str)
                    IN  CASE p.kind = "int" -> Num(p.n)
                          [] p.kind = "float" -> NumberCell(p.d)
                          [] OTHER -> NaN)
    [] OTHER -> NaN

CoerceRow(r) ==
  [c \in DOMAIN r |->
     CASE c = "date" -> to_datetime(r[c])
       [] c \in {"goals_for", "goals_against"} -> to_numeric(r[c])
       [] c = "result" -> Str(Strip(Upper(AsStr(r[c]))))
       [] c = "opponent" -> Str(Strip(CollapseWs(AsStr(r[c]))))
       [] c = "venue" -> Str(Title(IF IsNaN(r[c]) THEN <<>> ELSE AsStr(r[c])))
       [] OTHER -> r[c]]

coerce_types(df) ==
  [columns |-> df.columns,
   rows |-> [i \in 1..Len(df.rows) |-> CoerceRow(df.rows[i])]]

\* what follows the prefix of length n and the run of whitespace after it
AfterPrefix(opp, n) == LStripSet(SubSeq(opp, n + 1, Len(opp)), WhiteSpace)

\* re.match(r'^(at|vs\.?)\s+(.*)$', opp, flags=re.I): the length of group 1,
\* or 0 when the pattern does not match.  "." takes no line feed and "$" is
\* the end of the text or the place before a last line feed, so a line feed
\* anywhere else after the whitespace fails the match.
VenuePrefixLen(opp) ==
  LET lo == Lower(opp)
      StartsWith(p) == Len(lo) > Len(p) /\ SubSeq(lo, 1, Len(p)) = p
                       /\ IsSpace(lo[Len(p) + 1])
                       /\ \A i \in 1..(Len(AfterPrefix(lo, Len(p))) - 1) :
                            AfterPrefix(lo, Len(p))[i] # "\n"
  IN  IF StartsWith(<<"a","t">>) THEN 2
      ELSE IF StartsWith(<<"v","s",".">>) THEN 3
      ELSE IF StartsWith(<<"v","s">>) THEN 2
      ELSE 0

\* group 2 of the match: the text after the whitespace, without a last line feed
VenueGroup2(opp, n) ==
  LET r == AfterPrefix(opp, n)
  IN  IF r # <<>> /\ r[Len(r)] = "\n" THEN SubSeq(r, 1, Len(r) - 1) ELSE r

infer_venue_and_clean_opponent(row) ==
  LET opp0 == Strip(LStripSet(AsStr(row.opponent), {"=", " "}))
      ven0 == IF "venue" \in DOMAIN row THEN Strip(AsStr(row.venue)) ELSE <<>>
      n == VenuePrefixLen(opp0)
      word == Lower(SubSeq(opp0, 1, n))
      ven == IF n > 0 /\ ven0 = <<>>
             THEN (IF SubSeq(word, 1, 2) = <<"a","t">>
                   THEN <<"A","w","a","y">> ELSE <<"H","o","m","e">>)
             ELSE ven0
      opp == IF n > 0 THEN VenueGroup2(opp0, n) ELSE opp0
  IN  [c \in DOMAIN row \cup {"venue"} |->
         CASE c = "opponent" -> Str(Title(opp))
           [] c = "venue" -> Str(Title(ven))
           [] OTHER -> row[c]]

DedupKey(r) == <<r.date, r.opponent, r.goals_for, r.goals_against, r.result>>

\* DataFrame.drop_duplicates(subset=...): the first row of each key is kept
drop_duplicates(rows) ==
  RowsAt(rows, {i \in 1..Len(rows) :
                  \A j \in 1..(i-1) : DedupKey(rows[j]) # DedupKey(rows[i])}, 1)

\* Series.between(lo, hi): inclusive, false for NaN
Between(c, lo, hi) ==
  \/ IsNum(c) /\ lo <= c.num /\ c.num <= hi
  \/ /\ IsFlt(c) /\ ~IsInf(c.flt) /\ c.flt.e < 0
     /\ LET v == IF c.flt.neg THEN 0 - c.flt.m ELSE c.flt.m
            unit == Pow10(0 - c.flt.e)
        IN  lo * unit <= v /\ v <= hi * unit

\* an optional command-line value is <<>> (None) or <<text>>
InWindow(r, start, end) ==
  /\ (start # <<>> => r.date.ts >= to_datetime(Raw(start[1])).ts)
  /\ (end # <<>> => r.date.ts <= to_datetime(Raw(end[1])).ts)

GoalsInRange(r) ==
  Between(r.goals_for, GoalLo, GoalHi) /\ Between(r.goals_against, GoalLo, GoalHi)

KeptRows(df1, start, end) ==
  LET HasDate(r) == ~IsNaN(r.date)
      WinOk(r) == InWindow(r, start, end)
      ResOk(r) == "result" \in df1.columns => r.result.str \in {<<"W">>, <<"L">>}
      OppOk(r) == ContainsLetter(r.opponent.str)
  IN  SelectSeq(SelectSeq(SelectSeq(SelectSeq(SelectSeq(
        df1.rows, HasDate), WinOk), ResOk), GoalsInRange), OppOk)

\* clean_filter with drop_duplicates called before the opponents are normalized
clean_filter_dedup_first(df0, start, end) ==
  LET df1 == coerce_types(normalize_columns(df0))
      kept == drop_duplicates(KeptRows(df1, start, end))
      applied == [i \in 1..Len(kept) |-> infer_venue_and_clean_opponent(kept[i])]
      cols == IF kept = <<>> THEN df1.columns ELSE df1.columns \cup {"venue"}
  IN  [columns |-> cols, rows |-> SortByDate(applied)]

clean_filter(df0, start, end) ==
  LET df1 == coerce_types(normalize_columns(df0))
      kept == KeptRows(df1, start, end)
      \* DataFrame.apply over no rows returns the frame as it is
      applied == [i \in 1..Len(kept) |-> infer_venue_and_clean_opponent(kept[i])]
      cols == IF kept = <<>> THEN df1.columns ELSE df1.columns \cup {"venue"}
  IN  [columns |-> cols, rows |-> SortByDate(drop_duplicates(applied))]

\* -------------------------------------------------------------- sensitivity
\* Series.clip(lower=0)
ClipLower0(n) == IF n < 0 THEN 0 ELSE n

\* the boolean mask of flipped
FlipMask(r, gf_delta, ga_delta) ==
  LET gf_adj == r.goals_for.num + gf_delta
      ga_adj == ClipLower0(r.goals_against.num - ga_delta)
  IN  r.result # Str(<<"W">>) /\ gf_adj > ga_adj

\* a.loc[mask, ['date','opponent','goals_for','goals_against']]
FlipColumns(r) ==
  [idx |-> r.idx, date |-> r.date, opponent |-> r.opponent,
   goals_for |-> r.goals_for, goals_against |-> r.goals_against]

\* flipped with >= for > in the mask
flipped_ge(rows, gf_delta, ga_delta) ==
  LET Keep(r) == r.result # Str(<<"W">>)
                 /\ r.goals_for.num + gf_delta >= ClipLower0(r.goals_against.num - ga_delta)
      sel == SelectSeq(rows, Keep)
  IN  [i \in 1..Len(sel) |-> FlipColumns(sel[i])]

\* flipped with gf_delta subtracted from goals_for
flipped_minus(rows, gf_delta, ga_delta) ==
  LET Keep(r) == r.result # Str(<<"W">>)
                 /\ r.goals_for.num - gf_delta > ClipLower0(r.goals_against.num - ga_delta)
      sel == SelectSeq(rows, Keep)
  IN  [i \in 1..Len(sel) |-> FlipColumns(sel[i])]

flipped(rows, gf_delta, ga_delta) ==
  LET Keep(r) == FlipMask(r, gf_delta, ga_delta)
      sel == SelectSeq(rows, Keep)
  IN  [i \in 1..Len(sel) |-> FlipColumns(sel[i])]

\* the loop of best_split from k on; best is <<flips, gf_delta, ga_delta>>
RECURSIVE BestFrom(_, _, _, _)
BestFrom(rows, d, k, best) ==
  IF k > d THEN best
  ELSE LET f == Len(flipped(rows, k, d - k))
       IN  BestFrom(rows, d, k + 1, IF f > best[1] THEN <<f, k, d - k>> ELSE best)

\* best_split with the loop's comparison turned round (f < best[0])
RECURSIVE BestFromLt(_, _, _, _)
BestFromLt(rows, d, k, best) ==
  IF k > d THEN best
  ELSE LET f == Len(flipped(rows, k, d - k))
       IN  BestFromLt(rows, d, k + 1, IF f < best[1] THEN <<f, k, d - k>> ELSE best)

best_split_lt(rows, d) == BestFromLt(rows, d, 0, <<0, 0, 0>>)

best_split(rows, d) == BestFrom(rows, d, 0, <<0, 0, 0>>)

\* one line of the sensitivity table of main
SensLine(rows, d) ==
  [d |-> d,
   off |-> Len(flipped(rows, d, 0)),
   dea |-> Len(flipped(rows, 0, d)),
   best |-> best_split(rows, d)]

\* the detail lists of main, for d in (2, 4) within dmax
DetailFor(rows, d) == [d |-> d, f_off |-> flipped(rows, d, 0), f_def |-> flipped(rows, 0, d)]

DetailTxt(rows, dmax) ==
  (IF 2 <= dmax THEN <<DetailFor(rows, 2)>> ELSE <<>>)
  \o (IF 4 <= dmax THEN <<DetailFor(rows, 4)>> ELSE <<>>)

\* ------------------------------------------------------------------- state
VARIABLES
  pc,       \* position of the running main
  status,   \* "running", or how main ended
  inp,      \* the input file of clean_and_sensitivity: [exists, columns, rows]
  df_raw,   \* the frame read from the input file
  args,     \* the parsed command line
  df,       \* the cleaned frame (clean_and_sensitivity), the working frame (ocr_and_parse)
  written,  \* the output artifacts written so far
  lines,    \* the sensitivity table built so far
  again,    \* <<>> or <<clean_filter applied to df>>
  call,     \* <<>> or the record of one call of flipped
  pages     \* the page texts of the PDF (ocr_and_parse)

vars == <<pc, status, inp, df_raw, args, df, written, lines, again, call, pages>>

NoFrame == [columns |-> {}, rows |-> <<>>]

\* ---------------------------------------------------------------- inputs
Hawks == <<"h","a","w","k","s">>
AtHawks == <<"a","t"," ","h","a","w","k","s">>
AtAtHawks == <<"A","t"," ","a","t"," ","h","a","w","k","s">>
VsOwls == <<"v","s",".","","\n","o","w","l","s">>
EqEcole == <<"="," ","é","c","o","L","E"," ","ß">>
Decimal150 == <<"1",".","5","0">>
NaText == <<"N","A">>
At12 == <<"a","t"," ","1","2">>
Only12 == <<"1","2">>

D1 == "2024-10-01"
D2 == "2024-10-02"
D3 == "2024-10-03"

Game(date, opp, ven, res, gf, ga) ==
  [date |-> date, opponent |-> opp, venue |-> ven, result |-> res,
   goals_for |-> gf, goals_against |-> ga]

\* rows a season CSV can hold: clean ones, ones that differ only in how the
\* opponent is written, and ones each filter of clean_filter drops
RowPool ==
  { Game(Raw(D1), Str(Hawks), Str(<<"a","w","a","y">>), Str(<<"L">>), Num(2), Num(3)),
    Game(Raw(D1), Str(AtHawks), NaN, Str(<<"l">>), Num(2), Num(3)),
    Game(Raw(D1), Str(AtAtHawks), NaN, Str(<<"L">>), Num(2), Num(3)),
    Game(Raw(D2), Str(VsOwls), NaN, Str(<<"\r","W">>), Num(4), Num(1)),
    Game(Raw(D2), Str(EqEcole), Str(<<"n","e","u","t","r","a","l">>), Str(<<"W">>), Num(4), Num(1)),
    Game(Raw(D2), Str(At12), NaN, Str(<<"L">>), Num(1), Num(2)),
    Game(Raw(D2), Str(Only12), NaN, Str(<<"L">>), Num(1), Num(2)),
    Game(Raw(D3), Str(Hawks), NaN, Str(<<"T">>), Num(2), Num(2)),
    Game(Raw("TBD"), Str(Hawks), NaN, Str(<<"L">>), Num(2), Num(3)),
    Game(Raw(D3), Str(Hawks), NaN, Str(<<"W">>), Num(36), Num(1)),
    Game(Raw(D3), Str(Decimal150), NaN, Str(<<"L">>), Num(1), Raw("x")),
    Game(Raw(D3), Str(NaText), NaN, Str(<<"L">>), Num(1), Num(35)) }

\* a CSV with the long column names and a venue column
LongRow(g, i) ==
  [idx |-> i, date |-> g.date, opponent |-> g.opponent, venue |-> g.venue,
   result |-> g.result, goals_for |-> g.goals_for, goals_against |-> g.goals_against]

\* a CSV with the short column names normalize_columns renames, without venue
ShortRow(g, i) ==
  [idx |-> i, date |-> g.date, team |-> g.opponent, wl |-> g.result,
   gf |-> g.goals_for, ga |-> g.goals_against]

LongColumns == {"date", "opponent", "venue", "result", "goals_for", "goals_against"}
ShortColumns == {"date", "team", "wl", "gf", "ga"}

\* the CSV files: a header and the rows in file order, numbered from 0, an
\* empty field being NaN
Frames ==
  UNION { UNION { { [columns |-> LongColumns, rows |-> [i \in 1..n |-> LongRow(g[i], i - 1)]],
            [columns |-> ShortColumns, rows |-> [i \in 1..n |-> ShortRow(g[i], i - 1)]] }
          : g \in [1..n -> RowPool] } : n \in 0..MaxRows }

OptDate == {<<>>, <<D2>>, <<D3>>}

\* ------------------------------------------ clean_and_sensitivity.py: main
\* df_out['date'].dt.date.astype(str)
DateStr(c) == Raw(DateText[c.ts])

DateAsText(rows) ==
  [i \in 1..Len(rows) |-> [c \in DOMAIN rows[i] |->
                             IF c = "date" THEN DateStr(rows[i][c]) ELSE rows[i][c]]]

FinalColumns == {"date", "opponent", "venue", "result", "goals_for", "goals_against"}

FinalRows(rows) ==
  [i \in 1..Len(rows) |-> [c \in FinalColumns \cup {"idx"} |-> rows[i][c]]]

\* the output directory is a function from file names to contents
AddFile(files, name, content) ==
  [n \in DOMAIN files \cup {name} |-> IF n = name THEN content ELSE files[n]]

\* lines 87-97: the input is looked up; a missing input ends main
CheckInput ==
  /\ pc = "start"
  /\ IF inp.exists
     THEN pc' = "read" /\ status' = status
     ELSE pc' = "done" /\ status' = "input_not_found"
  /\ UNCHANGED <<inp, df_raw, args, df, written, lines, again, call, pages>>

\* the texts pd.read_csv takes for a missing value
NaStrings ==
  {<<>>,
   <<"#","N","/","A">>, <<"#","N","/","A"," ","N","/","A">>, <<"#","N","A">>,
   <<"-","1",".","#","I","N","D">>, <<"-","1",".","#","Q","N","A","N">>, <<"-","N","a","N">>,
   <<"-","n","a","n">>, <<"1",".","#","I","N","D">>, <<"1",".","#","Q","N","A","N">>,
   <<"<","N","A",">">>, <<"N","/","A">>, <<"N","A">>,
   <<"N","U","L","L">>, <<"N","a","N">>, <<"N","o","n","e">>,
   <<"n","/","a">>, <<"n","a","n">>, <<"n","u","l","l">>}

\* the texts pd.read_csv takes for the truth values
TrueStrings == {<<"T","r","u","e">>, <<"T","R","U","E">>, <<"t","r","u","e">>}
FalseStrings == {<<"F","a","l","s","e">>, <<"F","A","L","S","E">>, <<"f","a","l","s","e">>}

\* pd.read_csv: the rows under a RangeIndex, each column with the type pandas
\* infers for it.  A field that is one of NaStrings is NaN.  A column whose
\* other fields are all integers is int64, or float64 when a field is
\* missing; one of integers and floats is float64; one of truth values holds
\* them; any other column keeps its texts.  A field written Num(n) is the
\* text of the digits of n, one written Raw(t) is a text that is none of
\* these.
read_csv(file) ==
  LET IsNA(x) == IsNaN(x) \/ (IsStr(x) /\ x.str \in NaStrings)
      Parsed(x) == IF IsNum(x) THEN [kind |-> "int", n |-> x.num]
                   ELSE IF IsStr(x) THEN ParseNumber(x.str)
                   ELSE NoNumber
      IsTruth(x) == IsStr(x) /\ x.str \in TrueStrings \cup FalseStrings
      Cells(c) == {file.rows[i][c] : i \in 1..Len(file.rows)}
      Values(c) == {x \in Cells(c) : ~IsNA(x)}
      Kind(c) ==
        IF \A x \in Values(c) : Parsed(x).kind = "int"
        THEN (IF Values(c) = Cells(c) THEN "int64" ELSE "float64")
        ELSE IF \A x \in Values(c) : Parsed(x).kind # "none" THEN "float64"
        ELSE IF \A x \in Values(c) : IsTruth(x) THEN "bool"
        ELSE "object"
      Typed(c, x) ==
        IF c = "idx" THEN x
        ELSE IF IsNA(x) THEN NaN
        ELSE CASE Kind(c) = "int64" -> Num(Parsed(x).n)
               [] Kind(c) = "float64" ->
                    Flt(IF Parsed(x).kind = "int" THEN DecOfInt(Parsed(x).n) ELSE Parsed(x).d)
               [] Kind(c) = "bool" -> Bool(x.str \in TrueStrings)
               [] OTHER -> x
  IN  [columns |-> file.columns,
       rows |-> [i \in 1..Len(file.rows) |->
                   [c \in DOMAIN file.rows[i] |-> Typed(c, file.rows[i][c])]]]

\* line 99
ReadCsv ==
  /\ pc = "read"
  /\ df_raw' = read_csv([columns |-> inp.columns, rows |-> inp.rows])
  /\ pc' = "clean"
  /\ UNCHANGED <<status, inp, args, df, written, lines, again, call, pages>>

\* line 100
CleanFrame ==
  /\ pc = "clean"
  /\ df' = clean_filter(df_raw,
                        args.season_start, args.season_end)
  /\ pc' = "write_clean"
  /\ UNCHANGED <<status, inp, df_raw, args, written, lines, again, call, pages>>

\* lines 103-107
WriteClean ==
  /\ pc = "write_clean"
  /\ written' = AddFile(written, "games_clean.csv", DateAsText(df.rows))
  /\ pc' = "write_final"
  /\ UNCHANGED <<status, inp, df_raw, args, df, lines, again, call, pages>>

\* line 108: selecting a column the frame does not have raises KeyError
\* (an input without a venue column gets one only when apply visits a row)
WriteFinal ==
  /\ pc = "write_final"
  /\ IF FinalColumns \subseteq df.columns
     THEN /\ written' = AddFile(written, "games_final.csv", FinalRows(DateAsText(df.rows)))
          /\ pc' = "sens"
          /\ status' = status
     ELSE /\ written' = written
          /\ pc' = "done"
          /\ status' = "KeyError"
  /\ UNCHANGED <<inp, df_raw, args, df, lines, again, call, pages>>

\* lines 119-123: one iteration of the sensitivity loop
SensRow ==
  /\ pc = "sens"
  /\ call = <<>>
  /\ Len(lines) < args.dmax
  /\ lines' = Append(lines, SensLine(df.rows, Len(lines) + 1))
  /\ UNCHANGED <<pc, status, inp, df_raw, args, df, written, again, call, pages>>

\* lines 127-138
WriteSummary ==
  /\ pc = "sens"
  /\ call = <<>>
  /\ Len(lines) >= args.dmax
  /\ written' = AddFile(written, "flips_summary.txt",
                         [lines |-> lines, detail |-> DetailTxt(df.rows, args.dmax)])
  /\ pc' = "done"
  /\ status' = "ok"
  /\ UNCHANGED <<inp, df_raw, args, df, lines, again, call, pages>>

NoInput == [exists |-> FALSE, columns |-> {}, rows |-> <<>>]

Init ==
  /\ pc = "start"
  /\ status = "running"
  /\ inp \in {NoInput} \cup {[exists |-> TRUE, columns |-> f.columns, rows |-> f.rows] : f \in Frames}
  /\ df_raw = NoFrame
  /\ args \in [season_start : OptDate, season_end : OptDate, dmax : {1, DmaxDefault}]
  /\ df = NoFrame
  /\ written = <<>>
  /\ lines = <<>>
  /\ again = <<>>
  /\ call = <<>>
  /\ pages = <<>>

Next == CheckInput \/ ReadCsv \/ CleanFrame \/ WriteClean \/ WriteFinal \/ SensRow \/ WriteSummary

Spec == Init /\ [][Next]_vars

\* ------------------------------------------- clean_filter on its own output
\* the cleaned frame is given to clean_filter again, with the same window
Reclean ==
  /\ pc = "write_clean"
  /\ again = <<>>
  /\ again' = <<clean_filter(df, args.season_start, args.season_end)>>
  /\ UNCHANGED <<pc, status, inp, df_raw, args, df, written, lines, call, pages>>

CleanInit ==
  /\ pc = "read"
  /\ status = "running"
  /\ inp \in {[exists |-> TRUE, columns |-> f.columns, rows |-> f.rows] : f \in Frames}
  /\ df_raw = NoFrame
  /\ args \in [season_start : OptDate, season_end : OptDate, dmax : {DmaxDefault}]
  /\ df = NoFrame
  /\ written = <<>>
  /\ lines = <<>>
  /\ again = <<>>
  /\ call = <<>>
  /\ pages = <<>>

CleanNext == ReadCsv \/ CleanFrame \/ Reclean

CleanSpec == CleanInit /\ [][CleanNext]_vars

\* ----------------------------------------- the sensitivity engine on its own
\* flipped(df, gf_delta, ga_delta) on the cleaned frame, for a chosen pair;
\* one call is recorded per frame
CallFlipped ==
  /\ pc = "sens"
  /\ lines = <<>>
  /\ call = <<>>
  /\ \E gf_delta \in 0..MaxSwing, ga_delta \in 0..MaxSwing :
       call' = <<[gf_delta |-> gf_delta, ga_delta |-> ga_delta,
                  out |-> flipped(df.rows, gf_delta, ga_delta)]>>
  /\ UNCHANGED <<pc, status, inp, df_raw, args, df, written, lines, again, pages>>

\* the (result, goals_for, goals_against) of a cleaned row, numbered from 0:
\* losses first, then wins, every score in 1..MaxGoal
CleanRow(code, i) ==
  [idx |-> i - 1, date |-> Ts(1), opponent |-> Str(Title(Hawks)), venue |-> Str(<<>>),
   result |-> Str(IF code \div (MaxGoal * MaxGoal) = 0 THEN <<"L">> ELSE <<"W">>),
   goals_for |-> Num(((code % (MaxGoal * MaxGoal)) \div MaxGoal) + 1),
   goals_against |-> Num((code % MaxGoal) + 1)]

\* the frames clean_filter can return for one game day: no two rows share
\* (date, opponent, goals_for, goals_against, result)
CleanFrames ==
  UNION { { [columns |-> LongColumns, rows |-> [i \in 1..n |-> CleanRow(code[i], i)]]
            : code \in {c \in [1..n -> 0..(2 * MaxGoal * MaxGoal - 1)] :
                          \A i \in 1..(n-1) : c[i] < c[i+1]} }
          : n \in 0..MaxRows }

SensInit ==
  /\ pc = "sens"
  /\ status = "running"
  /\ inp = NoInput
  /\ df_raw = NoFrame
  /\ args = [season_start |-> <<>>, season_end |-> <<>>, dmax |-> MaxSwing]
  /\ df \in CleanFrames
  /\ written = <<>>
  /\ lines = <<>>
  /\ again = <<>>
  /\ call = <<>>
  /\ pages = <<>>

SensNext == SensRow \/ CallFlipped

SensSpec == SensInit /\ [][SensNext]_vars

\* ------------------------------------------------------- ocr_and_parse.py
\* A text is the sequence of the pieces between its single spaces
\* (text.split(" ")): "" is <<"">>, "a b" is <<"a","b">>, "a b " is
\* <<"a","b","">>, so x + " " + y is x \o y.  The tokens of a page begin
\* with a letter or hold no letter; apart from the pieces ":" and "|" all
\* their characters are in the class [A-Za-z0-9 .&'()/-] once clean has run.
EnDashScore == "2{U+2013}3"

\* the dash replacements of clean
DashToHyphen(t) == IF t = EnDashScore THEN "2-3" ELSE t

\* clean(s): dashes to hyphens, runs of whitespace to one space, strip
clean(line) ==
  LET fixed == [i \in 1..Len(line) |-> DashToHyphen(line[i])]
      kept == SelectSeq(fixed, LAMBDA t : t # "")
  IN  IF kept = <<>> THEN <<"">> ELSE kept

\* 0, or the position of the first piece of the text in the set
FirstIn(text, set) ==
  IF \E i \in 1..Len(text) : text[i] \in set
  THEN CHOOSE i \in 1..Len(text) : text[i] \in set /\ \A j \in 1..(i-1) : text[j] \notin set
  ELSE 0

\* RX_DATE_NUM: day/month/year in digits
DateNumTokens == {"10/01/2024", "10/02/2024", "10/03/2024", "13/45/2024"}
\* RX_DATE_NAME: a month name and a day; the pages of this model print none
DateNameTokens == {}
\* RX_RES: W, L or T as a word of its own, in either case
ResTokens == {"W", "L", "T", "w", "l", "t"}
\* RX_SCORE: two numbers of one or two digits around a hyphen
ScoreTokens == {"2-3", "4-1", "0-3"}

ResUpper(t) == CASE t \in {"W", "w"} -> "W" [] t \in {"L", "l"} -> "L" [] OTHER -> "T"

ScoreOf(t) == CASE t = "2-3" -> <<2, 3>> [] t = "4-1" -> <<4, 1>> [] OTHER -> <<0, 3>>

\* str.lower() of a piece: the pieces of the model alphabet that hold a capital
LowerTok(t) ==
  CASE t = "At" -> "at" [] t = "AT" -> "at" [] t = "Vs" -> "vs" [] t = "Neutral" -> "neutral"
    [] t = "Hawks" -> "hawks" [] t = "Owls" -> "owls" [] t = "Schedule" -> "schedule"
    [] t = "H" -> "h" [] t = "A" -> "a" [] t = "N" -> "n"
    [] t \in ResTokens -> (CASE ResUpper(t) = "W" -> "w" [] ResUpper(t) = "L" -> "l" [] OTHER -> "t")
    [] OTHER -> t

\* the pieces that are punctuation on their own; ":" and "|" are outside the
\* class [A-Za-z0-9 .&'()/\-]
EdgePieces == {"-", ":", "|"}
ClassBreaks == {":", "|"}

BeginsWithLetter(t) ==
  t \notin (DateNumTokens \cup ScoreTokens \cup EdgePieces \cup {"", EnDashScore})

\* str.strip(" -:|")
RECURSIVE StripEdges(_)
StripEdges(text) ==
  IF text = <<>> THEN <<"">>
  ELSE IF Head(text) \in EdgePieces \cup {""} THEN StripEdges(Tail(text))
  ELSE IF text[Len(text)] \in EdgePieces \cup {""}
       THEN StripEdges(SubSeq(text, 1, Len(text) - 1))
  ELSE text

\* str.strip() of a text: the spaces at its edges go
RECURSIVE StripSpaces(_)
StripSpaces(text) ==
  IF text = <<>> THEN <<"">>
  ELSE IF Head(text) = "" THEN StripSpaces(Tail(text))
  ELSE IF text[Len(text)] = "" THEN StripSpaces(SubSeq(text, 1, Len(text) - 1))
  ELSE text

\* len(s)
RECURSIVE CharLen(_)
CharLen(text) ==
  IF Len(text) = 1 THEN Len(text[1]) ELSE Len(Head(text)) + 1 + CharLen(Tail(text))

\* text[a:b] between the end of piece a and the start of piece b
Between2(text, a, b) ==
  IF b <= a THEN <<"">> ELSE <<"">> \o SubSeq(text, a + 1, b - 1) \o <<"">>

\* re.sub(r"^(at|vs\.?|neutral)\s+", "", s, flags=re.IGNORECASE)
RECURSIVE DropEmptyHead(_)
DropEmptyHead(text) ==
  IF Len(text) > 1 /\ Head(text) = "" THEN DropEmptyHead(Tail(text)) ELSE text

SubVenuePrefix(text) ==
  IF Len(text) >= 2 /\ LowerTok(text[1]) \in {"at", "vs", "vs.", "neutral"}
  THEN DropEmptyHead(Tail(text))
  ELSE text

\* findall(r"[A-Za-z][A-Za-z0-9 .&'()/\-]{2,}", text) from piece i on: a match
\* starts at the first piece that begins with a letter and runs to the end of
\* the text or to the space before the next piece outside the class; a run of
\* fewer than three characters is no match
RECURSIVE AlphaRuns(_, _)
AlphaRuns(text, i) ==
  IF i > Len(text) THEN <<>>
  ELSE IF ~BeginsWithLetter(text[i]) THEN AlphaRuns(text, i + 1)
  ELSE LET stops == {j \in (i+1)..Len(text) : text[j] \in ClassBreaks}
           j == IF stops = {} THEN Len(text) + 1
                ELSE CHOOSE k \in stops : \A m \in stops : k <= m
           run == SubSeq(text, i, j - 1) \o (IF j <= Len(text) THEN <<"">> ELSE <<>>)
       IN  (IF CharLen(run) >= 3 THEN <<run>> ELSE <<>>) \o AlphaRuns(text, j)

\* max(alpha, key=len).strip() if alpha else "": the first of the longest
LongestAlpha(text) ==
  LET alpha == AlphaRuns(text, 1)
      best == CHOOSE i \in 1..Len(alpha) :
                /\ \A j \in 1..Len(alpha) : CharLen(alpha[j]) <= CharLen(alpha[i])
                /\ \A j \in 1..(i-1) : CharLen(alpha[j]) < CharLen(alpha[i])
  IN  IF alpha = <<>> THEN <<"">> ELSE StripSpaces(alpha[best])

\* lines 70-75
VenueOf(text) ==
  LET lo == {LowerTok(text[i]) : i \in 1..Len(text)}
      han == FirstIn(text, {"H", "A", "N"})
  IN  IF "neutral" \in lo THEN "Neutral"
      ELSE IF "at" \in lo THEN "Away"
      ELSE IF "vs" \in lo THEN "Home"
      ELSE IF han = 0 THEN ""
      ELSE (CASE text[han] = "H" -> "Home" [] text[han] = "A" -> "Away" [] OTHER -> "Neutral")

\* lines 61-83 for one candidate text: <<>> or <<the row>>
Candidate(pg_idx, text) ==
  LET res == FirstIn(text, ResTokens)
      sc == FirstIn(text, ScoreTokens)
      dn == FirstIn(text, DateNumTokens)
      dm == FirstIn(text, DateNameTokens)
      dt == IF dn # 0 THEN dn ELSE dm
      end_pos == IF res < sc THEN res ELSE sc
      opp0 == StripEdges(SubVenuePrefix(Between2(text, dt, end_pos)))
      opp == IF CharLen(opp0) < 2 THEN LongestAlpha(text) ELSE opp0
  IN  IF text = <<"">> \/ res = 0 \/ sc = 0 \/ dt = 0 THEN <<>>
      ELSE <<[page |-> pg_idx, date_raw |-> text[dt], opponent |-> opp,
              venue |-> VenueOf(text), result |-> ResUpper(text[res]),
              goals_for |-> ScoreOf(text[sc])[1], goals_against |-> ScoreOf(text[sc])[2],
              raw |-> text]>>

\* lines 57-60: the two candidate texts of line i of the cleaned page
LinePair(L, i) == IF i + 1 <= Len(L) THEN L[i] \o L[i+1] ELSE L[i]

RECURSIVE PageRows(_, _, _)
PageRows(pg_idx, L, i) ==
  IF i > Len(L) THEN <<>>
  ELSE Candidate(pg_idx, L[i]) \o Candidate(pg_idx, LinePair(L, i)) \o PageRows(pg_idx, L, i + 1)

RECURSIVE AllRows(_, _)
AllRows(pgs, pg_idx) ==
  IF pg_idx > Len(pgs) THEN <<>>
  ELSE PageRows(pg_idx, [i \in 1..Len(pgs[pg_idx]) |-> clean(pgs[pg_idx][i])], 1)
       \o AllRows(pgs, pg_idx + 1)

\* DataFrame.drop_duplicates(): rows equal in every column, the first kept
DropExact(rows) ==
  RowsAt(rows, {i \in 1..Len(rows) : \A j \in 1..(i-1) : rows[j] # rows[i]}, 1)

parse_schedule_from_text(pgs) == DropExact(AllRows(pgs, 1))

\* p.strip() of a page
PageHasText(pg) == \E i \in 1..Len(pg) : \E j \in 1..Len(pg[i]) : pg[i][j] # ""

\* parse_pages_arg: the 0-based indexes asked for that exist, ascending
parse_pages_arg(asked, total) == {x - 1 : x \in asked} \cap 0..(total - 1)

extract_pages_text(full_text, pages_arg) ==
  LET found == SelectSeq(full_text, PageHasText)
  IN  IF found = <<>> \/ pages_arg = <<>> THEN found
      ELSE RowsAt(found, {i \in 1..Len(found) :
                            i - 1 \in parse_pages_arg(pages_arg[1], Len(found))}, 1)

\* lines 114-121 of main
OcrValidate(rows, start, end) ==
  LET dated == [i \in 1..Len(rows) |->
                  [c \in DOMAIN rows[i] \cup {"date"} |->
                     IF c = "date" THEN to_datetime(Raw(rows[i].date_raw)) ELSE rows[i][c]]]
      HasDate(r) == ~IsNaN(r.date)
      WinOk(r) == InWindow(r, start, end)
      GoalsOk(r) == /\ GoalLo <= r.goals_for /\ r.goals_for <= GoalHi
                    /\ GoalLo <= r.goals_against /\ r.goals_against <= GoalHi
      ResOk(r) == r.result \in {"W", "L", "T"}
  IN  SortByDate(SelectSeq(SelectSeq(SelectSeq(SelectSeq(
        dated, HasDate), WinOk), GoalsOk), ResOk))

\* lines 122-123
OcrOut(rows) ==
  [i \in 1..Len(rows) |->
     [date |-> DateStr(rows[i].date), opponent |-> rows[i].opponent, venue |-> rows[i].venue,
      result |-> rows[i].result, goals_for |-> rows[i].goals_for,
      goals_against |-> rows[i].goals_against, page |-> rows[i].page, raw |-> rows[i].raw]]

\* lines 98-103: the page texts are extracted; none ends main with exit 2.
\* inp.text is the text pdfminer finds in the file ocr_if_needed hands over
\* (the source PDF, or its copy run through ocrmypdf), split at form feeds
\* and then into lines.
ExtractPages ==
  /\ pc = "start"
  /\ pages' = extract_pages_text(inp.text, args.pages)
  /\ IF pages' = <<>>
     THEN pc' = "done" /\ status' = "exit2"
     ELSE pc' = "dump" /\ status' = status
  /\ UNCHANGED <<inp, df_raw, args, df, written, lines, again, call>>

\* f"page{i:02d}.txt" under pdf_text_dump
DumpName(i) == "pdf_text_dump/page" \o (IF i < 10 THEN "0" ELSE "") \o ToString(i) \o ".txt"

\* lines 105-108
DumpText ==
  /\ pc = "dump"
  /\ written' = IF args.dump_text
                THEN [n \in DOMAIN written \cup {DumpName(i) : i \in 1..Len(pages)} |->
                        IF \E i \in 1..Len(pages) : DumpName(i) = n
                        THEN pages[CHOOSE i \in 1..Len(pages) : DumpName(i) = n]
                        ELSE written[n]]
                ELSE written
  /\ pc' = "parse"
  /\ UNCHANGED <<status, inp, df_raw, args, df, lines, again, call, pages>>

\* lines 110-112: no row ends main with exit 3
ParsePages ==
  /\ pc = "parse"
  /\ df' = [columns |-> {}, rows |-> parse_schedule_from_text(pages)]
  /\ IF df'.rows = <<>>
     THEN pc' = "done" /\ status' = "exit3"
     ELSE pc' = "validate" /\ status' = status
  /\ UNCHANGED <<inp, df_raw, args, written, lines, again, call, pages>>

\* lines 114-123
ValidateRows ==
  /\ pc = "validate"
  /\ df' = [columns |-> {},
            rows |-> OcrOut(OcrValidate(df.rows, args.season_start, args.season_end))]
  /\ pc' = "write"
  /\ UNCHANGED <<status, inp, df_raw, args, written, lines, again, call, pages>>

\* lines 125-126
WriteGames ==
  /\ pc = "write"
  /\ written' = AddFile(written, "games.csv", df.rows)
  /\ pc' = "done"
  /\ status' = "ok"
  /\ UNCHANGED <<inp, df_raw, args, df, lines, again, call, pages>>

\* raw lines of a schedule page, before clean
LinePool ==
  { <<"10/01/2024", "at", "Hawks", "L", EnDashScore>>,
    <<"10/02/2024", "", "Owls", "W", "4-1">>,
    <<"10/03/2024", "vs", "Owls", "T", "0-3">>,
    <<"10/01/2024", "Hawks">>,
    <<"L", "2-3">>,
    <<"10/02/2024", "W", "4-1", "Owls", "-">>,
    <<"13/45/2024", "Hawks", "N", "l", "2-3">>,
    <<"Schedule">>,
    <<"">> }

PagePool == UNION { [1..n -> LinePool] : n \in 0..MaxLines }

OcrInit ==
  /\ pc = "start"
  /\ status = "running"
  /\ inp \in { [exists |-> TRUE, text |-> t] : t \in UNION { [1..n -> PagePool] : n \in 0..MaxPages } }
  /\ df_raw = NoFrame
  /\ args \in [season_start : {<<>>, <<D2>>}, season_end : {<<>>},
               pages : {<<>>, <<{2}>>}, dump_text : BOOLEAN]
  /\ df = NoFrame
  /\ written = <<>>
  /\ lines = <<>>
  /\ again = <<>>
  /\ call = <<>>
  /\ pages = <<>>

OcrNext == ExtractPages \/ DumpText \/ ParsePages \/ ValidateRows \/ WriteGames

OcrSpec == OcrInit /\ [][OcrNext]_vars

\* ------------------------------------------------------------------ claims
\* the flip condition in the specification's words: the original result is
\* Loss and goals_for + gf_delta > max(goals_against - ga_delta, 0)
SpecFlips(r, gf_delta, ga_delta) ==
  LET lowered == r.goals_against.num - ga_delta
      floor0 == IF lowered >= 0 THEN lowered ELSE 0
  IN  r.result = Str(<<"L">>) /\ r.goals_for.num + gf_delta > floor0

\* flip_count(gf_delta, ga_delta): the number of flipping records of df
FlipCount(gf_delta, ga_delta) ==
  Cardinality({k \in 1..Len(df.rows) : SpecFlips(df.rows[k], gf_delta, ga_delta)})

\* C1: flipped returns exactly the Loss records with
\* goals_for + gf_delta > max(goals_against - ga_delta, 0): every such record
\* once, with its own date, opponent and scores, and no other record.
C1_FlippedExact ==
  \A n \in 1..Len(call) :
    LET c == call[n]
        want == {k \in 1..Len(df.rows) : SpecFlips(df.rows[k], c.gf_delta, c.ga_delta)}
    IN  /\ Len(c.out) = Cardinality(want)
        /\ {c.out[j].idx : j \in 1..Len(c.out)} = {df.rows[k].idx : k \in want}
        /\ \A j \in 1..Len(c.out) : \E k \in want :
             /\ c.out[j].idx = df.rows[k].idx
             /\ c.out[j].date = df.rows[k].date
             /\ c.out[j].opponent = df.rows[k].opponent
             /\ c.out[j].goals_for = df.rows[k].goals_for
             /\ c.out[j].goals_against = df.rows[k].goals_against

\* a call that returns a Loss and leaves out a Win whose adjusted score also
\* exceeds, with goals_against clipped at 0
C1_Witness ==
  \E n \in 1..Len(call) :
    /\ Len(call[n].out) = 1
    /\ Len(df.rows) = 2
    /\ \E k \in 1..Len(df.rows) :
         /\ df.rows[k].result = Str(<<"W">>)
         /\ df.rows[k].goals_against.num < call[n].ga_delta
         /\ call[n].gf_delta > 0

\* C2: the flip count best_split(df, d) returns is at least flip_count(k, d-k)
\* for every k in 0..d and equals it for some k.
C2_BestSplitMax ==
  \A i \in 1..Len(lines) :
    LET d == lines[i].d
        f == lines[i].best[1]
    IN  /\ \A k \in 0..d : f >= FlipCount(k, d - k)
        /\ \E k \in 0..d : f = FlipCount(k, d - k)

\* a table line for d >= 2 whose best split flips a loss while another row
\* of the frame does not flip
C2_Witness ==
  \E i \in 1..Len(lines) :
    /\ lines[i].d >= 2
    /\ lines[i].best[1] >= 1
    /\ lines[i].best[1] < Len(df.rows)

\* the smallest k in 0..d that maximizes flip_count(k, d-k)
SmallestBestK(d) ==
  CHOOSE k \in 0..d :
    /\ \A j \in 0..d : FlipCount(k, d - k) >= FlipCount(j, d - j)
    /\ \A j \in 0..(k-1) : FlipCount(j, d - j) < FlipCount(k, d - k)

\* C3: best_split(df, d) reports the split (k, d-k) with k the smallest
\* maximizer of flip_count(k, d-k); the two deltas always sum to d.
C3_SmallestKSplit ==
  \A i \in 1..Len(lines) :
    LET d == lines[i].d
        b == lines[i].best
    IN  /\ b[2] = SmallestBestK(d)
        /\ b[3] = d - b[2]
        /\ b[2] + b[3] = d

\* C4: the offense-only and the defense-only flip counts do not decrease
\* from magnitude d to d+1.
C4_Monotone ==
  \A i \in 1..(Len(lines) - 1) :
    /\ lines[i+1].d = lines[i].d + 1
    /\ lines[i+1].off >= lines[i].off
    /\ lines[i+1].dea >= lines[i].dea
    /\ lines[i].off = FlipCount(lines[i].d, 0)
    /\ lines[i].dea = FlipCount(0, lines[i].d)

\* a table in which both single-mode counts grow from one magnitude to the next
C4_Witness ==
  \E i \in 1..(Len(lines) - 1) :
    /\ lines[i+1].off > lines[i].off
    /\ lines[i+1].dea > lines[i].dea
    /\ lines[i].off > 0

Rows(frame) == {frame.rows[i] : i \in 1..Len(frame.rows)}

\* C5: clean_filter applied to its own output, with the same window, returns
\* the same records with the same opponent and venue values.
C5_Idempotent ==
  \A n \in 1..Len(again) : Rows(again[n]) = Rows(df)

\* C6: every record clean_filter returns has a non-empty opponent that
\* contains a letter.
C6_OpponentHasLetter ==
  \A r \in Rows(df) : r.opponent.str # <<>> /\ ContainsLetter(r.opponent.str)

\* the rows of the frame read from the input, under the long column names
InputRows == normalize_columns(df_raw).rows

RawKey(r) == <<r.date, r.opponent, r.goals_for, r.goals_against, r.result>>

\* the dedup tuple an input row gets from the normalization pass
NormKey(r) == DedupKey(infer_venue_and_clean_opponent(CoerceRow(r)))

\* the row passes steps 1-5 of the validator: a parseable date inside the
\* window, result W or L, both goals in [1, 35], a letter in the opponent
PassesFilters(r) ==
  LET c == CoerceRow(r)
  IN  /\ ~IsNaN(c.date)
      /\ InWindow(c, args.season_start, args.season_end)
      /\ c.result.str \in {<<"W">>, <<"L">>}
      /\ GoalsInRange(c)
      /\ ContainsLetter(c.opponent.str)

CountKey(key) == Cardinality({k \in 1..Len(df.rows) : DedupKey(df.rows[k]) = key})

NoSharedKey ==
  \A i, j \in 1..Len(df.rows) : i # j => DedupKey(df.rows[i]) # DedupKey(df.rows[j])

\* C7 as stated: two input records identical on (date, opponent, goals_for,
\* goals_against, result) leave exactly one record with that tuple in the
\* cleaned output, and no two cleaned records share the tuple.
C7_ExactlyOne ==
  pc = "write_clean" =>
    /\ NoSharedKey
    /\ \A i, j \in 1..Len(InputRows) :
         (i < j /\ RawKey(InputRows[i]) = RawKey(InputRows[j]))
           => CountKey(NormKey(InputRows[i])) = 1

\* C7 amended: such a pair leaves exactly one record with its tuple when the
\* record passes the validator's filters (a pair a filter drops leaves no
\* record of its own); no two cleaned records share (date, normalized
\* opponent, goals_for, goals_against, result).
C7_Dedup ==
  pc = "write_clean" =>
    /\ NoSharedKey
    /\ \A i, j \in 1..Len(InputRows) :
         (i < j /\ RawKey(InputRows[i]) = RawKey(InputRows[j]) /\ PassesFilters(InputRows[i]))
           => CountKey(NormKey(InputRows[i])) = 1
    /\ \A k \in 1..Len(df.rows) :
         \E i \in 1..Len(InputRows) :
           PassesFilters(InputRows[i]) /\ NormKey(InputRows[i]) = DedupKey(df.rows[k])

\* two identical valid input rows, written "at hawks", cleaned to one "Hawks"
C7_Witness ==
  /\ pc = "write_clean"
  /\ Len(InputRows) = 2
  /\ RawKey(InputRows[1]) = RawKey(InputRows[2])
  /\ InputRows[1].opponent = Str(AtHawks)
  /\ Len(df.rows) = 1
  /\ df.rows[1].opponent = Str(Title(Hawks))

\* the date window is inverted: both bounds given, end before start
WindowInverted ==
  /\ args.season_start # <<>>
  /\ args.season_end # <<>>
  /\ to_datetime(Raw(args.season_end[1])).ts < to_datetime(Raw(args.season_start[1])).ts

\* C8: with an inverted date window clean_filter fails with a
\* ConfigurationError instead of returning a record set.
C8_InvertedWindowFails ==
  (WindowInverted /\ inp.exists) => (pc \in {"start", "read", "clean"} \/ status = "ConfigurationError")

\* C9: when a run of either pipeline aborts, no output artifact has been
\* written at an earlier point of that run.
C9_NoOutputOnAbort ==
  status \notin {"running", "ok"} => DOMAIN written = {}

\* the tuple of an extracted row, with its date parsed
OcrKey(r) ==
  <<to_datetime(Raw(r.date_raw)), r.opponent, r.goals_for, r.goals_against, r.result>>

\* the same tuple of a row of games.csv
OutKey(r) == <<to_datetime(r.date), r.opponent, r.goals_for, r.goals_against, r.result>>

\* the cleaned lines of page p
CleanLines(p) == [i \in 1..Len(pages[p]) |-> clean(pages[p][i])]

\* C10: when line i alone and line i joined with line i+1 both match, differ
\* in raw text and resolve to the same (date, opponent, goals_for,
\* goals_against, result), a tuple the validation keeps, the records the
\* extraction pipeline emits hold exactly one record for that tuple.
C10_OverlapCollapses ==
  (status = "ok" /\ "games.csv" \in DOMAIN written) =>
    \A p \in 1..Len(pages) : \A i \in 1..Len(pages[p]) :
      LET one == Candidate(p, CleanLines(p)[i])
          two == Candidate(p, LinePair(CleanLines(p), i))
          out == written["games.csv"]
      IN  ( /\ one # <<>> /\ two # <<>>
            /\ one[1].raw # two[1].raw
            /\ OcrKey(one[1]) = OcrKey(two[1])
            /\ OcrValidate(one, args.season_start, args.season_end) # <<>> )
          => Cardinality({k \in 1..Len(out) : OutKey(out[k]) = OcrKey(one[1])}) = 1

====
